---- MODULE Spec2Model ----
(***************************************************************************)
(* Model of plot.py: the script that reads times.csv, strips the column    *)
(* headers, plots every column after the first against df["Size"], styles  *)
(* the chart and saves it as plot.png.                                      *)
(*                                                                         *)
(* Strings that the script transforms (column headers) are sequences of    *)
(* one-character strings, so that str.strip is computed, not assumed.      *)
(***************************************************************************)
EXTENDS Integers, Sequences, FiniteSets, TLC

\* ---------------------------------------------------------------- bounds
MaxCols == 5
MaxRows == 2

\* ------------------------------------------------------------- constants
Dpi == 300

\* The key column name used by df["Size"].
Size == <<"S", "i", "z", "e">>

\* Characters removed by str.strip() with no argument.
Whitespace == {" ", "\t"}

\* Raw header texts an input file may carry.
RawHeaders ==
    { Size,
      <<" ", " ", "S", "i", "z", "e">>,
      <<"D", " ", "P">>,
      <<"D", " ", "P", " ">>,
      <<"\t", "D", " ", "P">>,
      <<"D", "C">> }

\* Numeric cell values.
Values == {1, 2}


\* ------------------------------------------------------- pure functions
Max(a, b) == IF a >= b THEN a ELSE b

\* Variant of lstrip that removes at most one leading whitespace character.
lstripOnce(s) ==
    IF s # <<>> /\ Head(s) \in Whitespace THEN Tail(s) ELSE s

RECURSIVE lstrip(_)
lstrip(s) ==
    IF s # <<>> /\ Head(s) \in Whitespace THEN lstrip(Tail(s)) ELSE s

RECURSIVE rstrip(_)
rstrip(s) ==
    IF s # <<>> /\ s[Len(s)] \in Whitespace
    THEN rstrip(SubSeq(s, 1, Len(s) - 1))
    ELSE s

\* str.strip(): remove leading and trailing whitespace, keep inner whitespace.
strip(s) == rstrip(lstrip(s))

\* df.columns.str.strip(): element-wise strip, same length, same order.
normalizeHeaders(cols) == [k \in 1..Len(cols) |-> strip(cols[k])]

\* Positions of the columns of frame d whose label equals name.
RECURSIVE PositionsFrom(_, _, _)
PositionsFrom(cols, name, k) ==
    IF k > Len(cols) THEN <<>>
    ELSE IF cols[k] = name
         THEN <<k>> \o PositionsFrom(cols, name, k + 1)
         ELSE PositionsFrom(cols, name, k + 1)

\* Variant of GetItem that falls back to the first column when no column
\* carries the label, instead of raising KeyError.
GetItemOrFirst(d, name) ==
    LET pos == PositionsFrom(d.columns, name, 1)
    IN  IF pos = <<>> /\ d.columns # <<>>
        THEN <<d.data[1]>>
        ELSE [j \in 1..Len(pos) |-> d.data[pos[j]]]

\* df[name]: the value sequences of every column labelled name, in column
\* order.  One column gives a Series (width 1), several give a DataFrame,
\* none raises KeyError (modelled by the empty selection).
GetItem(d, name) ==
    LET pos == PositionsFrom(d.columns, name, 1)
    IN  [j \in 1..Len(pos) |-> d.data[pos[j]]]

\* Variant of LoopColumns that iterates df.columns from its first label.
LoopColumnsFromFirst(cols) == cols

\* df.columns[1:]: every column label after the first, by position.
LoopColumns(cols) == SubSeq(cols, 2, Len(cols))

\* plt.plot(x, y, marker='o', linestyle='-', label=col) raises ValueError
\* when x and y are both two-dimensional with different column counts.
PlotShapeOk(x, y) == ~(Len(x) > 1 /\ Len(y) > 1 /\ Len(x) # Len(y))

\* plt.plot(x, y, ...): one Line2D per data set, max(ncx, ncy) of them,
\* cycling over the columns of the narrower argument; all share the label.
PlotLines(x, y, col) ==
    [j \in 1..Max(Len(x), Len(y)) |->
        [ label     |-> col,
          x         |-> x[((j - 1) % Len(x)) + 1],
          y         |-> y[((j - 1) % Len(y)) + 1],
          marker    |-> "o",
          linestyle |-> "-" ]]

\* plt.legend(): entries are the labels of the lines drawn so far, skipping
\* empty labels and labels starting with an underscore.
RECURSIVE LegendEntries(_)
LegendEntries(ls) ==
    IF ls = <<>> THEN <<>>
    ELSE IF Head(ls).label # <<>> /\ Head(Head(ls).label) # "_"
         THEN <<Head(ls).label>> \o LegendEntries(Tail(ls))
         ELSE LegendEntries(Tail(ls))

\* Variant of TickLocations that skips the first row (df["Size"][1:]).
TickLocationsSkipFirst(xs) == IF xs = <<>> THEN xs ELSE Tail(xs)

\* plt.xticks(ticks): the tick locations are the given values, as given.
TickLocations(xs) == xs

\* ------------------------------------------------------------ input space
\* pd.read_csv yields pairwise distinct column labels (duplicates in the
\* file are renamed), at least one column, and columns of equal length.
\* Values are the cell values of the first column.
ColumnLists ==
    UNION { { c \in [1..n -> RawHeaders] :
                \A a, b \in 1..n : a # b => c[a] # c[b] } : n \in 1..MaxCols }

\* Column k holds the values of the first column plus 10 * (k - 1), so that
\* the columns of a table differ from one another and repeat where it does.
FramesOf(c) ==
    UNION { { [columns |-> c,
               data    |-> [k \in 1..Len(c) |->
                              [i \in 1..r |-> xs[i] + 10 * (k - 1)]]] :
                xs \in [1..r -> Values] } : r \in 0..MaxRows }

Tables == UNION { FramesOf(c) : c \in ColumnLists }

NoFrame == [columns |-> <<>>, data |-> <<>>]

EmptyChart ==
    [ lines    |-> <<>>,
      xlabel   |-> "",
      ylabel   |-> "",
      title    |-> "",
      legendOn |-> FALSE,
      legend   |-> <<>>,
      grid     |-> FALSE,
      ticksSet |-> FALSE,
      xticks   |-> <<>> ]

NoImage == [written |-> FALSE, dpi |-> 0, chart |-> EmptyChart]

ColumnsLine(cols) == [kind |-> "columns", names |-> cols]
SavedLine == [kind |-> "saved", names |-> <<>>]

\* ------------------------------------------------------------------ state
VARIABLES
    fileState,  \* times.csv: "missing", "malformed" or "ok"
    fileTable,  \* the table times.csv parses to when fileState = "ok"
    writable,   \* whether plot.png can be written
    pc,         \* position in the script
    df,         \* the data frame
    idx,        \* position in df.columns[1:] of the next loop column
    chart,      \* the current matplotlib figure
    image,      \* plot.png
    stdout,     \* lines printed so far
    error,      \* the exception that ended the run, "none" otherwise
    failedAt    \* pc at which the exception was raised

vars == <<fileState, fileTable, writable, pc, df, idx, chart, image, stdout,
          error, failedAt>>

Init ==
    /\ fileState \in {"missing", "malformed", "ok"}
    /\ fileTable \in Tables \cup {NoFrame}
    /\ fileState = "ok" <=> fileTable # NoFrame
    /\ writable \in BOOLEAN
    /\ pc = "load"
    /\ df = NoFrame
    /\ idx = 0
    /\ chart = EmptyChart
    /\ image = NoImage
    /\ stdout = <<>>
    /\ error = "none"
    /\ failedAt = "none"

\* An unhandled exception ends the run where it is raised.
Raise(kind) ==
    /\ pc' = "aborted"
    /\ error' = kind
    /\ failedAt' = pc

\* Variant of Load that goes on with an empty frame when the file is missing
\* or malformed.
LoadLenient ==
    /\ pc = "load"
    /\ df' = fileTable
    /\ pc' = "normalize"
    /\ UNCHANGED <<fileState, fileTable, writable, idx, chart, image, stdout,
                   error, failedAt>>

\* Line 5: df = pd.read_csv("times.csv")
Load ==
    /\ pc = "load"
    /\ IF fileState = "missing"
       THEN Raise("FileNotFoundError") /\ UNCHANGED df
       ELSE IF fileState = "malformed"
       THEN Raise("ParserError") /\ UNCHANGED df
       ELSE /\ df' = fileTable
            /\ pc' = "normalize"
            /\ UNCHANGED <<error, failedAt>>
    /\ UNCHANGED <<fileState, fileTable, writable, idx, chart, image, stdout>>

\* Line 8: df.columns = df.columns.str.strip()
Normalize ==
    /\ pc = "normalize"
    /\ df' = [df EXCEPT !.columns = normalizeHeaders(df.columns)]
    /\ pc' = "print_columns"
    /\ UNCHANGED <<fileState, fileTable, writable, idx, chart, image, stdout,
                   error, failedAt>>

\* Line 9: print("Columns:", df.columns.tolist())
PrintColumns ==
    /\ pc = "print_columns"
    /\ stdout' = Append(stdout, ColumnsLine(df.columns))
    /\ idx' = 1
    /\ pc' = "render"
    /\ UNCHANGED <<fileState, fileTable, writable, df, chart, image, error,
                   failedAt>>

\* Lines 12-13, one iteration: plt.plot(df["Size"], df[col], ..., label=col)
RenderSeries ==
    /\ pc = "render"
    /\ idx <= Len(LoopColumns(df.columns))
    /\ LET col == LoopColumns(df.columns)[idx]
           x   == GetItem(df, Size)
           y   == GetItem(df, col)
       IN  IF x = <<>>
           THEN Raise("KeyError") /\ UNCHANGED <<chart, idx>>
           ELSE IF ~PlotShapeOk(x, y)
           THEN Raise("ValueError") /\ UNCHANGED <<chart, idx>>
           ELSE /\ chart' = [chart EXCEPT !.lines = @ \o PlotLines(x, y, col)]
                /\ idx' = idx + 1
                /\ UNCHANGED <<pc, error, failedAt>>
    /\ UNCHANGED <<fileState, fileTable, writable, df, image, stdout>>

\* Variant of RenderDone that may leave the loop before its last column.
RenderDoneEarly ==
    /\ pc = "render"
    /\ pc' = "style"
    /\ UNCHANGED <<fileState, fileTable, writable, df, idx, chart, image,
                   stdout, error, failedAt>>

\* Line 12, loop exhausted: fall through to the styling calls.
RenderDone ==
    /\ pc = "render"
    /\ idx > Len(LoopColumns(df.columns))
    /\ pc' = "style"
    /\ UNCHANGED <<fileState, fileTable, writable, df, idx, chart, image,
                   stdout, error, failedAt>>

\* Lines 15-20: labels, title, legend, grid, then plt.xticks(df["Size"]).
ApplyStyling ==
    /\ pc = "style"
    /\ LET styled == [chart EXCEPT
                        !.xlabel   = "Number of Matrices",
                        !.ylabel   = "Execution Time (ms)",
                        !.title    = "Matrix Chain Multiplication: D&C vs DP",
                        !.legendOn = TRUE,
                        !.legend   = LegendEntries(chart.lines),
                        !.grid     = TRUE]
           ticks  == GetItem(df, Size)
       IN  IF ticks = <<>>
           THEN Raise("KeyError") /\ chart' = styled
           ELSE IF Len(ticks) > 1
           THEN Raise("ValueError") /\ chart' = styled
           ELSE /\ chart' = [styled EXCEPT
                               !.ticksSet = TRUE,
                               !.xticks   = TickLocations(ticks[1])]
                /\ pc' = "save"
                /\ UNCHANGED <<error, failedAt>>
    /\ UNCHANGED <<fileState, fileTable, writable, df, idx, image, stdout>>

\* Variant of SaveFig that leaves a file behind when the write fails.
SaveFigLeavesFile ==
    /\ pc = "save"
    /\ image' = [written |-> TRUE, dpi |-> Dpi, chart |-> chart]
    /\ IF writable
       THEN pc' = "print_saved" /\ UNCHANGED <<error, failedAt>>
       ELSE Raise("OSError")
    /\ UNCHANGED <<fileState, fileTable, writable, df, idx, chart, stdout>>

\* Line 25: plt.savefig("plot.png", dpi=300, bbox_inches="tight")
SaveFig ==
    /\ pc = "save"
    /\ IF writable
       THEN /\ image' = [written |-> TRUE, dpi |-> Dpi, chart |-> chart]
            /\ pc' = "print_saved"
            /\ UNCHANGED <<error, failedAt>>
       ELSE Raise("OSError") /\ UNCHANGED image
    /\ UNCHANGED <<fileState, fileTable, writable, df, idx, chart, stdout>>

\* Line 26: print("Plot saved as plot.png ...")
PrintSaved ==
    /\ pc = "print_saved"
    /\ stdout' = Append(stdout, SavedLine)
    /\ pc' = "done"
    /\ UNCHANGED <<fileState, fileTable, writable, df, idx, chart, image,
                   error, failedAt>>

Next ==
    \/ Load
    \/ Normalize
    \/ PrintColumns
    \/ RenderSeries
    \/ RenderDone
    \/ ApplyStyling
    \/ SaveFig
    \/ PrintSaved

Spec == Init /\ [][Next]_vars

\* ------------------------------------------------- vocabulary of the claims
Terminal == pc \in {"done", "aborted"}

Rank(p) ==
    CASE p = "load"          -> 1
      [] p = "normalize"     -> 2
      [] p = "print_columns" -> 3
      [] p = "render"        -> 4
      [] p = "style"         -> 5
      [] p = "save"          -> 6
      [] p = "print_saved"   -> 7
      [] p = "done"          -> 8
      [] p = "aborted"       -> 9

\* A header trimmed, by the definition of trimming: the text from its first
\* to its last non-whitespace character, empty when it has none.
Trimmed(raw) ==
    LET kept == {k \in 1..Len(raw) : raw[k] \notin Whitespace}
    IN  IF kept = {} THEN <<>>
        ELSE SubSeq(raw, CHOOSE k \in kept : \A m \in kept : k <= m,
                         CHOOSE k \in kept : \A m \in kept : k >= m)

TrimmedNames == [k \in 1..Len(fileTable.columns) |-> Trimmed(fileTable.columns[k])]

SizePositions == {k \in 1..Len(TrimmedNames) : TrimmedNames[k] = Size}

HasSize == SizePositions # {}

DistinctTrimmedNames ==
    \A a, b \in 1..Len(TrimmedNames) : a # b => TrimmedNames[a] # TrimmedNames[b]

Labels(ls) == [k \in 1..Len(ls) |-> ls[k].label]

RECURSIVE Without(_, _)
Without(names, name) ==
    IF names = <<>> THEN <<>>
    ELSE IF Head(names) = name
         THEN Without(Tail(names), name)
         ELSE <<Head(names)>> \o Without(Tail(names), name)

Range(f) == {f[k] : k \in DOMAIN f}

NoRepeats(f) == \A a, b \in DOMAIN f : a # b => f[a] # f[b]

\* ----------------------------------------------------------------- claims

\* C1 (as stated, read for a writable plot.png): for every input table that
\* has a "Size" column after trimming and at least one more column, the run
\* ends with plot.png written and the first stdout line lists exactly the
\* trimmed column names in source order.
C1_ValidTableProducesImage ==
    (Terminal /\ fileState = "ok" /\ writable /\ HasSize
        /\ Len(fileTable.columns) >= 2)
    => /\ pc = "done"
       /\ image.written
       /\ stdout # <<>>
       /\ stdout[1] = ColumnsLine(TrimmedNames)

\* C2: when times.csv is missing the run aborts at the load step; no image
\* file is created, no series is plotted and nothing is printed.
C2_MissingFileAbortsAtLoad ==
    fileState = "missing"
    => /\ pc \in {"load", "aborted"}
       /\ pc = "aborted" => failedAt = "load" /\ error = "FileNotFoundError"
       /\ ~image.written
       /\ chart.lines = <<>>
       /\ stdout = <<>>

C2_Witness == fileState = "missing" /\ pc = "aborted"

\* C3 (as stated): a terminated run has produced either all of its side
\* effects (image and both stdout lines) or none of them.
C3_AllOrNothing ==
    Terminal
    => \/ image.written /\ Len(stdout) = 2
       \/ ~image.written /\ stdout = <<>>

\* C3 (amended): a terminated run is in one of three states: success with
\* the image and both lines; failure at load with no side effect; failure at
\* render, tick setup or save with no image, no completion line and exactly
\* the column-names line printed.
C3_SuccessOrNoImage ==
    Terminal
    => \/ /\ pc = "done"
          /\ error = "none"
          /\ image.written
          /\ stdout = <<ColumnsLine(TrimmedNames), SavedLine>>
       \/ /\ pc = "aborted"
          /\ failedAt = "load"
          /\ ~image.written
          /\ stdout = <<>>
       \/ /\ pc = "aborted"
          /\ failedAt \in {"render", "style", "save"}
          /\ ~image.written
          /\ stdout = <<ColumnsLine(TrimmedNames)>>

C3_Witness ==
    /\ pc = "aborted"
    /\ failedAt = "save"
    /\ stdout = <<ColumnsLine(TrimmedNames)>>
    /\ ~image.written

\* C4 (as stated): after styling, the ticks are exactly the distinct values
\* of the "Size" column: same set of values, and no tick value twice.
C4_TicksAreDistinctSizeValues ==
    chart.ticksSet
    => \A k \in SizePositions :
          /\ Range(chart.xticks) = Range(fileTable.data[k])
          /\ NoRepeats(chart.xticks)

\* C4 (amended): after styling, the tick values are the "Size" column as it
\* stands, in row order: every Size value is a tick and no tick is absent
\* from the column, and a value that occurs several times in the column
\* occurs as many times among the ticks.  (Styling completes only when
\* exactly one column is labelled "Size".)
C4_TicksAreSizeColumn ==
    chart.ticksSet
    => /\ Cardinality(SizePositions) = 1
       /\ \A k \in SizePositions :
             /\ chart.xticks = fileTable.data[k]
             /\ Range(chart.xticks) = Range(fileTable.data[k])

C4_Witness ==
    /\ chart.ticksSet
    /\ Len(chart.xticks) = 2
    /\ chart.xticks[1] = chart.xticks[2]

\* C5 (as stated): when the run reaches the save step, the number of line
\* series equals the number of columns minus one, for every table with a
\* "Size" column after trimming, colliding trimmed headers included.
C5_SeriesCountIsColumnsMinusOne ==
    (pc = "save" /\ HasSize)
    => Len(chart.lines) = Len(fileTable.columns) - 1

\* C6 (as stated, already for tables whose trimmed names are pairwise
\* distinct): when "Size" exists after trimming, wherever it stands, the
\* series are the columns other than "Size", one each, labelled by trimmed
\* name, in source column order, and "Size" is not among them.
C6_NonSizeColumnsPlottedInOrder ==
    (pc = "save" /\ HasSize /\ DistinctTrimmedNames)
    => /\ Labels(chart.lines) = Without(TrimmedNames, Size)
       /\ \A k \in 1..Len(chart.lines) : chart.lines[k].label # Size

\* C7: normalizeHeaders is idempotent: applied to the already normalized
\* column list of the frame it returns that same list.
C7_NormalizeIdempotent ==
    (fileState = "ok" /\ Rank(pc) >= Rank("print_columns"))
    => /\ normalizeHeaders(df.columns) = df.columns
       /\ Len(normalizeHeaders(df.columns)) = Len(fileTable.columns)

C7_Witness ==
    /\ pc = "print_columns"
    /\ df.columns # fileTable.columns
    /\ Len(df.columns) >= 2

\* C8: when the only column of the input is "Size", no series is added, the
\* run passes render and styling and reaches save; the destination being
\* writable, the image and the completion line are written.
C8_OnlySizeColumnStillSaves ==
    (fileState = "ok" /\ TrimmedNames = <<Size>>)
    => /\ chart.lines = <<>>
       /\ Terminal =>
            /\ chart.ticksSet /\ chart.legendOn /\ chart.legend = <<>>
            /\ pc = "aborted" => failedAt = "save" /\ ~writable
            /\ writable =>
                 /\ pc = "done"
                 /\ image.written
                 /\ image.chart.lines = <<>>
                 /\ stdout = <<ColumnsLine(<<Size>>), SavedLine>>

C8_Witness ==
    /\ pc = "done"
    /\ TrimmedNames = <<Size>>
    /\ image.written
    /\ image.chart.lines = <<>>

\* C9: every step moves the script to the next position of the sequence
\* load, normalize, print, render, style, save, print, or aborts it, so no
\* position is entered twice; series are added only during render and with
\* trimmed headers; legend and ticks are set only at the style position,
\* after the last loop column was plotted; the image is written only at
\* save on a styled chart; the completion line is printed only after the
\* image was written.
C9_StrictSequence ==
    [][ /\ pc' # pc => (pc' = "aborted" \/ Rank(pc') = Rank(pc) + 1)
        /\ pc' = "aborted" => pc \notin {"done", "aborted"}
        /\ df'.columns # df.columns => pc \in {"load", "normalize"}
        /\ chart'.lines # chart.lines
              => /\ pc = "render"
                 /\ df.columns = TrimmedNames
                 /\ chart'.legendOn = FALSE /\ chart'.ticksSet = FALSE
        /\ (chart'.legendOn # chart.legendOn \/ chart'.ticksSet # chart.ticksSet)
              => /\ pc = "style"
                 /\ idx = Len(fileTable.columns)
        /\ image' # image
              => pc = "save" /\ chart.legendOn /\ chart.ticksSet
        /\ stdout' # stdout
              => \/ pc = "print_columns" /\ df.columns = TrimmedNames
                 \/ pc = "print_saved" /\ image.written
      ]_vars

C9_Witness == pc = "done" /\ Len(chart.lines) >= 2 /\ Len(stdout) = 2

\* C10: when no column is named "Size" after trimming, the run aborts
\* before save with no image: with several columns at the first render
\* iteration, with one column at tick setup; the column-names line has
\* been printed by then and the completion line never is.
C10_NoSizeColumnAborts ==
    (fileState = "ok" /\ ~HasSize)
    => /\ Rank(pc) <= Rank("style") \/ pc = "aborted"
       /\ ~image.written
       /\ \A k \in 1..Len(stdout) : stdout[k] # SavedLine
       /\ pc = "aborted"
            => /\ error = "KeyError"
               /\ stdout = <<ColumnsLine(TrimmedNames)>>
               /\ Len(fileTable.columns) >= 2
                    => failedAt = "render" /\ chart.lines = <<>>
               /\ Len(fileTable.columns) = 1 => failedAt = "style"

C10_Witness ==
    /\ pc = "aborted"
    /\ ~HasSize
    /\ Len(fileTable.columns) = 1
    /\ failedAt = "style"
    /\ Len(stdout) = 1
====
